---- MODULE Spec2Model ----
(***************************************************************************)
(* Model of src/utils/includeDirectiveParser.ts: the `@include <path>`     *)
(* directive scanner (regular expressions, path normalisation, line and    *)
(* content parsing) and the inclusion resolver described by its            *)
(* ProcessOptions / ProcessResult / ProcessError declarations.             *)
(*                                                                         *)
(* Strings are sequences of one-character strings, so that the regular     *)
(* expressions, trim() and the path functions are computed character by    *)
(* character and segment by segment as the JavaScript runtime computes     *)
(* them.                                                                   *)
(***************************************************************************)
EXTENDS Integers, Sequences, FiniteSets, TLC

VARIABLES
    homeDir,        \* os.homedir() of the process
    basePath,       \* basePath argument
    line,           \* line argument of the single-line functions
    lineNumber,     \* lineNumber argument of parseIncludeLine
    isDirResult,    \* result of isIncludeDirective(line)
    parseResult,    \* result of parseIncludeLine(line, lineNumber, basePath)
    extractResult,  \* result of extractIncludePath(line)
    content,        \* content argument of parseIncludeDirectives
    scanResult,     \* result of parseIncludeDirectives(content, basePath)
    inputPath,      \* inputPath argument of normalizePath
    normalizeResult,\* result of normalizePath(inputPath, basePath)
    fs,             \* what options.readFile returns: path -> content
    broken,         \* paths options.readFile fails on with an I/O error
    options,        \* options.maxDepth and options.includedPaths
    rootPath,       \* path of the document handed to the resolver
    scans,          \* each file's lines and its parseIncludeDirectives result
    stack,          \* the resolver's calls in progress, innermost last
    included,       \* ProcessResult.includedPaths so far
    procErrors,     \* ProcessResult.errors so far
    merged,         \* ProcessResult.content, once resolution is over
    rpc             \* "idle", "start", "running" or "done"

\* The arguments and the environment, which no function changes.
inputs == <<homeDir, basePath, line, lineNumber, content, inputPath, fs,
            broken, options, rootPath, scans>>

\* The results of the scanner's functions.
scanOutputs == <<isDirResult, parseResult, extractResult, scanResult,
                 normalizeResult>>

\* The resolver's state.
resolverState == <<stack, included, procErrors, merged, rpc>>

vars == <<inputs, scanOutputs, resolverState>>

-----------------------------------------------------------------------------
(* Characters *)

\* ECMAScript WhiteSpace and LineTerminator code points that occur in the
\* model's alphabet: \s and String.prototype.trim() use both classes, `.`
\* excludes the line terminators.
LineTerminator == {"\n", "\r"}
WhiteSpace == {" ", "\t"} \cup LineTerminator

IsSpace(c) == c \in WhiteSpace
IsDot(c) == c \notin LineTerminator

KEYWORD == <<"@", "i", "n", "c", "l", "u", "d", "e">>

Max(S) == CHOOSE x \in S : \A y \in S : y <= x

\* Number of leading / trailing whitespace characters of s.
LeadingSpaces(s) ==
    IF \A m \in 1..Len(s) : IsSpace(s[m]) THEN Len(s)
    ELSE (CHOOSE m \in 1..Len(s) :
              ~IsSpace(s[m]) /\ \A q \in 1..(m - 1) : IsSpace(s[q])) - 1
TrailingSpaces(s) ==
    IF \A m \in 1..Len(s) : IsSpace(s[m]) THEN Len(s)
    ELSE Len(s) - (CHOOSE m \in 1..Len(s) :
                       ~IsSpace(s[m]) /\ \A q \in (m + 1)..Len(s) : IsSpace(s[q]))

\* String.prototype.trim()
Trim(s) ==
    IF LeadingSpaces(s) = Len(s) THEN <<>>
    ELSE SubSeq(s, LeadingSpaces(s) + 1, Len(s) - TrailingSpaces(s))

\* String.prototype.startsWith(lit, at - 1)
StartsWithAt(s, at, lit) ==
    /\ at + Len(lit) - 1 <= Len(s)
    /\ SubSeq(s, at, at + Len(lit) - 1) = lit

-----------------------------------------------------------------------------
(* Regular expressions *)

NoMatch == [matched |-> FALSE, group1 |-> <<>>]

\* KeywordEnds without the ^ anchor: the keyword is found anywhere on the line.
KeywordEndsUnanchored(s) ==
    {k + Len(KEYWORD) : k \in {k \in 0..Len(s) : StartsWithAt(s, k + 1, KEYWORD)}}

\* Where /^\s*@include/ can end: after k leading whitespace characters and the
\* keyword.
KeywordEnds(s) ==
    {k + Len(KEYWORD) : k \in {k \in 0..Len(s) :
        /\ StartsWithAt(s, k + 1, KEYWORD)
        /\ \A m \in 1..k : IsSpace(s[m])}}

\* /^\s*@include\s+(.+)$/ : leading whitespace, the keyword (ending at e),
\* j >= 1 whitespace characters, then one or more characters that are not line
\* terminators up to the end of the input. The result is the set of <<e, j>>
\* for which the whole pattern matches.
IncludeMatches(s) ==
    {ej \in KeywordEnds(s) \X (1..Len(s)) :
        LET e == ej[1]
            j == ej[2]
        IN  /\ e + j < Len(s)
            /\ \A m \in (e + 1)..(e + j) : IsSpace(s[m])
            /\ \A m \in (e + j + 1)..Len(s) : IsDot(s[m])}

\* Both quantifiers are greedy, so the match the backtracking finds first has
\* the longest leading whitespace and then the longest \s+.
INCLUDE_DIRECTIVE_REGEX(s) ==
    LET all == IncludeMatches(s)
    IN  IF all = {} THEN NoMatch
        ELSE LET e == Max({ej[1] : ej \in all})
                 j == Max({ej[2] : ej \in {x \in all : x[1] = e}})
             IN  [matched |-> TRUE, group1 |-> SubSeq(s, e + j + 1, Len(s))]

\* /^\s*@include\s*$/
INCOMPLETE_INCLUDE_REGEX(s) ==
    \E e \in KeywordEnds(s) : \A m \in (e + 1)..Len(s) : IsSpace(s[m])

-----------------------------------------------------------------------------
(* Node's POSIX path module, as called by normalizePath *)

SEP == "/"

\* String.prototype.split(sep) for a one-character separator.
RECURSIVE Split(_, _)
Split(s, sep) ==
    IF \A m \in 1..Len(s) : s[m] # sep THEN <<s>>
    ELSE LET at == CHOOSE m \in 1..Len(s) :
                       s[m] = sep /\ \A q \in 1..(m - 1) : s[q] # sep
         IN  <<SubSeq(s, 1, at - 1)>> \o Split(SubSeq(s, at + 1, Len(s)), sep)

\* Array.prototype.join(sep)
RECURSIVE Join(_, _)
Join(segs, sep) ==
    IF segs = <<>> THEN <<>>
    ELSE IF Len(segs) = 1 THEN segs[1]
    ELSE segs[1] \o <<sep>> \o Join(Tail(segs), sep)

DOT == <<".">>
DOTDOT == <<".", ".">>

\* normalizeString(path, allowAboveRoot): res is the list of segments kept so
\* far. Empty and `.` segments are dropped; `..` removes the last kept segment
\* unless there is none or it is itself `..`, and is then kept only when
\* allowAboveRoot.
RECURSIVE NormalizeSegments(_, _, _)
NormalizeSegments(segs, res, allowAboveRoot) ==
    IF segs = <<>> THEN res
    ELSE LET seg == Head(segs)
             next ==
                 IF seg = <<>> \/ seg = DOT THEN res
                 ELSE IF seg = DOTDOT
                      THEN IF res # <<>> /\ res[Len(res)] # DOTDOT
                           THEN SubSeq(res, 1, Len(res) - 1)
                           ELSE IF allowAboveRoot THEN Append(res, DOTDOT) ELSE res
                      ELSE Append(res, seg)
         IN  NormalizeSegments(Tail(segs), next, allowAboveRoot)

NormalizeString(p, allowAboveRoot) ==
    Join(NormalizeSegments(Split(p, SEP), <<>>, allowAboveRoot), SEP)

\* path.isAbsolute(p)
PathIsAbsolute(p) == Len(p) > 0 /\ p[1] = SEP

\* path.normalize(p)
PathNormalize(p) ==
    IF Len(p) = 0 THEN DOT
    ELSE LET isAbsolute == p[1] = SEP
             trailingSeparator == p[Len(p)] = SEP
             body == NormalizeString(p, ~isAbsolute)
         IN  IF Len(body) = 0
             THEN IF isAbsolute THEN <<SEP>>
                  ELSE IF trailingSeparator THEN <<".", SEP>> ELSE DOT
             ELSE (IF isAbsolute THEN <<SEP>> ELSE <<>>)
                  \o body
                  \o (IF trailingSeparator THEN <<SEP>> ELSE <<>>)

\* path.join(a, b): the non-empty arguments joined by the separator, normalized.
PathJoin(a, b) ==
    LET joined == IF Len(a) = 0 THEN b
                  ELSE IF Len(b) = 0 THEN a
                  ELSE a \o <<SEP>> \o b
    IN  IF Len(joined) = 0 THEN DOT ELSE PathNormalize(joined)

\* process.cwd(), which path.resolve falls back to when no argument is absolute.
ProcessCwd == <<"/", "w">>

\* path.resolve(from, to): arguments are taken right to left, each prepended to
\* the result so far, until an absolute one has been taken.
PathResolve(from, to) ==
    LET step1 == IF Len(to) = 0 THEN <<>> ELSE to \o <<SEP>>
        abs1 == PathIsAbsolute(to)
        step2 == IF abs1 \/ Len(from) = 0 THEN step1 ELSE from \o <<SEP>> \o step1
        abs2 == abs1 \/ PathIsAbsolute(from)
        step3 == IF abs2 THEN step2 ELSE ProcessCwd \o <<SEP>> \o step2
        abs3 == abs2 \/ PathIsAbsolute(ProcessCwd)
        body == NormalizeString(step3, ~abs3)
    IN  IF abs3 THEN <<SEP>> \o body
        ELSE IF Len(body) > 0 THEN body ELSE DOT

-----------------------------------------------------------------------------
(* The scanner's functions *)

TILDE == <<"~">>

\* normalizePath returning an absolute input as it is, without path.normalize.
NormalizePathKeepsAbsolute(path, base) ==
    LET trimmedPath == Trim(path)
    IN  IF StartsWithAt(trimmedPath, 1, <<"~", SEP>>) \/ trimmedPath = TILDE
        THEN IF trimmedPath = TILDE THEN homeDir
             ELSE PathJoin(homeDir, SubSeq(trimmedPath, 3, Len(trimmedPath)))
        ELSE IF PathIsAbsolute(trimmedPath) THEN trimmedPath
        ELSE PathResolve(base, trimmedPath)

\* normalizePath testing the untrimmed input for `~`, `~/` and absoluteness.
NormalizePathTestsUntrimmed(path, base) ==
    LET trimmedPath == Trim(path)
    IN  IF StartsWithAt(path, 1, <<"~", SEP>>) \/ path = TILDE
        THEN IF path = TILDE THEN homeDir
             ELSE PathJoin(homeDir, SubSeq(trimmedPath, 3, Len(trimmedPath)))
        ELSE IF PathIsAbsolute(path) THEN PathNormalize(trimmedPath)
        ELSE PathResolve(base, trimmedPath)

\* normalizePath(inputPath, basePath)
NormalizePath(path, base) ==
    LET trimmedPath == Trim(path)
    IN  IF StartsWithAt(trimmedPath, 1, <<"~", SEP>>) \/ trimmedPath = TILDE
        THEN IF trimmedPath = TILDE THEN homeDir
             ELSE PathJoin(homeDir, SubSeq(trimmedPath, 3, Len(trimmedPath)))
        ELSE IF PathIsAbsolute(trimmedPath) THEN PathNormalize(trimmedPath)
        ELSE PathResolve(base, trimmedPath)

Null == [tag |-> "null"]
Unset == [tag |-> "unset"]
Str(s) == [tag |-> "string", value |-> s]
Bool(b) == [tag |-> "boolean", value |-> b]

IncludeDirective(originalLine, n, rawPath, resolvedPath) ==
    [tag |-> "directive", originalLine |-> originalLine, lineNumber |-> n,
     rawPath |-> rawPath, resolvedPath |-> resolvedPath]

\* parseIncludeLine(line, lineNumber, basePath)
ParseIncludeLine(l, n, base) ==
    LET match == INCLUDE_DIRECTIVE_REGEX(l)
        rawPath == Trim(match.group1)
    IN  IF ~match.matched THEN Null
        ELSE IF rawPath = <<>> THEN Null
        ELSE IncludeDirective(l, n, rawPath, NormalizePath(rawPath, base))

\* isIncludeDirective(line)
IsIncludeDirective(l) == INCLUDE_DIRECTIVE_REGEX(l).matched

\* extractIncludePath(line)
ExtractIncludePath(l) ==
    LET match == INCLUDE_DIRECTIVE_REGEX(l)
        rawPath == Trim(match.group1)
    IN  IF ~match.matched THEN Null
        ELSE IF rawPath = <<>> THEN Null ELSE Str(rawPath)

\* The message of both errors.push calls, word by word.
EMPTY_PATH_MESSAGE ==
    <<"Invalid", "@include", "directive:", "path", "cannot", "be", "empty">>

ParseError(n, l, message) ==
    [lineNumber |-> n, line |-> l, message |-> message]

ParseResult(originalContent, directives, errors) ==
    [tag |-> "result", originalContent |-> originalContent,
     directives |-> directives, errors |-> errors]

\* ScanLine without the else branch of `if (directive)`: a line the complete
\* pattern matches with a blank path is dropped.
ScanLineDropsBlankPath(l, n, base, acc) ==
    IF INCLUDE_DIRECTIVE_REGEX(l).matched
    THEN LET directive == ParseIncludeLine(l, n, base)
         IN  IF directive # Null
             THEN [acc EXCEPT !.directives = Append(@, directive)]
             ELSE acc
    ELSE IF INCOMPLETE_INCLUDE_REGEX(l)
         THEN [acc EXCEPT !.errors =
                   Append(@, ParseError(n, l, EMPTY_PATH_MESSAGE))]
         ELSE acc

\* ScanLine without the `continue` of line 165: a line the complete pattern
\* matches goes on to the incomplete pattern's test.
ScanLineWithoutContinue(l, n, base, acc) ==
    LET directive == ParseIncludeLine(l, n, base)
        afterComplete ==
            IF ~INCLUDE_DIRECTIVE_REGEX(l).matched THEN acc
            ELSE IF directive # Null
                 THEN [acc EXCEPT !.directives = Append(@, directive)]
                 ELSE [acc EXCEPT !.errors =
                           Append(@, ParseError(n, l, EMPTY_PATH_MESSAGE))]
    IN  IF INCOMPLETE_INCLUDE_REGEX(l)
        THEN [afterComplete EXCEPT !.errors =
                  Append(@, ParseError(n, l, EMPTY_PATH_MESSAGE))]
        ELSE afterComplete

\* One iteration of the loop of parseIncludeDirectives: acc holds the
\* directives and errors pushed so far.
ScanLine(l, n, base, acc) ==
    IF INCLUDE_DIRECTIVE_REGEX(l).matched
    THEN LET directive == ParseIncludeLine(l, n, base)
         IN  IF directive # Null
             THEN [acc EXCEPT !.directives = Append(@, directive)]
             ELSE [acc EXCEPT !.errors =
                       Append(@, ParseError(n, l, EMPTY_PATH_MESSAGE))]
    ELSE IF INCOMPLETE_INCLUDE_REGEX(l)
         THEN [acc EXCEPT !.errors =
                   Append(@, ParseError(n, l, EMPTY_PATH_MESSAGE))]
         ELSE acc

\* ScanFrom with lineNumber = i instead of i + 1.
RECURSIVE ScanFromZeroIndexed(_, _, _, _)
ScanFromZeroIndexed(lines, i, base, acc) ==
    IF ~(i < Len(lines)) THEN acc
    ELSE ScanFromZeroIndexed(lines, i + 1, base,
                             ScanLine(lines[i + 1], i, base, acc))

\* The loop of parseIncludeDirectives from index i (0-based, as in the code).
RECURSIVE ScanFrom(_, _, _, _)
ScanFrom(lines, i, base, acc) ==
    IF ~(i < Len(lines)) THEN acc
    ELSE ScanFrom(lines, i + 1, base, ScanLine(lines[i + 1], i + 1, base, acc))

\* parseIncludeDirectives(content, basePath)
ParseIncludeDirectives(c, base) ==
    LET lines == Split(c, "\n")
        acc == ScanFrom(lines, 0, base, [directives |-> <<>>, errors |-> <<>>])
    IN  ParseResult(c, acc.directives, acc.errors)

-----------------------------------------------------------------------------
(* Inputs *)

MaxAtoms == 5

MIXED_KEYWORD == <<"@", "I", "n", "c", "l", "u", "d", "e">>

\* The pieces lines are built from: the keyword, a mixed-case spelling of it, a
\* bare `@` (the legacy single-@ syntax), a space, a carriage return (a
\* whitespace character that is also a line terminator, as in CRLF files) and
\* an ordinary character.
Atoms == {KEYWORD, MIXED_KEYWORD, <<"@">>, <<" ">>, <<"\r">>, <<"a">>}

RECURSIVE AtomStrings(_)
AtomStrings(n) ==
    IF n = 0 THEN {<<>>}
    ELSE LET shorter == AtomStrings(n - 1)
         IN  shorter \cup {s \o a : s \in shorter, a \in Atoms}

Lines == AtomStrings(MaxAtoms)

HOME == <<"/", "h">>
BASE == <<"/", "d">>

-----------------------------------------------------------------------------
(* The single-line functions applied to one line *)

NO_OPTIONS == [maxDepth |-> <<>>, includedPaths |-> {}]

\* No file system, no resolution in progress.
ResolverIdle ==
    /\ fs = <<>>
    /\ broken = {}
    /\ options = NO_OPTIONS
    /\ rootPath = <<>>
    /\ scans = <<>>
    /\ stack = <<>>
    /\ included = <<>>
    /\ procErrors = <<>>
    /\ merged = <<>>
    /\ rpc = "idle"

NoCallYet ==
    /\ isDirResult = Unset
    /\ parseResult = Unset
    /\ extractResult = Unset
    /\ scanResult = Unset
    /\ normalizeResult = Unset

\* One of the four functions is called on the line; parseIncludeDirectives
\* takes it as a one-line content.
InitLine ==
    /\ homeDir = HOME
    /\ basePath = BASE
    /\ line \in Lines
    /\ lineNumber = 1
    /\ content = line
    /\ inputPath = <<>>
    /\ NoCallYet
    /\ ResolverIdle

CallIsIncludeDirective ==
    /\ NoCallYet
    /\ isDirResult' = Bool(IsIncludeDirective(line))
    /\ UNCHANGED <<inputs, resolverState>>
    /\ UNCHANGED <<parseResult, extractResult, scanResult, normalizeResult>>

CallParseIncludeLine ==
    /\ NoCallYet
    /\ parseResult' = ParseIncludeLine(line, lineNumber, basePath)
    /\ UNCHANGED <<inputs, resolverState>>
    /\ UNCHANGED <<isDirResult, extractResult, scanResult, normalizeResult>>

CallExtractIncludePath ==
    /\ NoCallYet
    /\ extractResult' = ExtractIncludePath(line)
    /\ UNCHANGED <<inputs, resolverState>>
    /\ UNCHANGED <<isDirResult, parseResult, scanResult, normalizeResult>>

CallParseIncludeDirectives ==
    /\ NoCallYet
    /\ scanResult' = ParseIncludeDirectives(content, basePath)
    /\ UNCHANGED <<inputs, resolverState>>
    /\ UNCHANGED <<isDirResult, parseResult, extractResult, normalizeResult>>

CallNormalizePath ==
    /\ NoCallYet
    /\ normalizeResult' = Str(NormalizePath(inputPath, basePath))
    /\ UNCHANGED <<inputs, resolverState>>
    /\ UNCHANGED <<isDirResult, parseResult, extractResult, scanResult>>

NextLine ==
    \/ CallIsIncludeDirective
    \/ CallParseIncludeLine
    \/ CallExtractIncludePath
    \/ CallParseIncludeDirectives

SpecLine == InitLine /\ [][NextLine]_vars

-----------------------------------------------------------------------------
(* Shapes of lines, stated without the regular expressions *)

\* The line with its leading whitespace removed.
AfterIndent(l) == SubSeq(l, LeadingSpaces(l) + 1, Len(l))

\* The keyword starts the line, after optional leading whitespace.
KeywordStartsLine(l) == StartsWithAt(AfterIndent(l), 1, KEYWORD)

\* What follows the keyword on a line the keyword starts.
AfterKeyword(l) == SubSeq(AfterIndent(l), Len(KEYWORD) + 1, Len(AfterIndent(l)))

\* Optional whitespace, the keyword, at least one whitespace character.
KeywordThenSpace(l) ==
    /\ KeywordStartsLine(l)
    /\ Len(AfterKeyword(l)) > 0
    /\ IsSpace(AfterKeyword(l)[1])

\* Optional whitespace, the keyword, at least one whitespace character and a
\* remainder that is not empty after trimming.
KeywordThenPath(l) == KeywordThenSpace(l) /\ Trim(AfterKeyword(l)) # <<>>

\* Optional whitespace, the keyword, then nothing or only whitespace.
KeywordAlone(l) == KeywordStartsLine(l) /\ Trim(AfterKeyword(l)) = <<>>

\* The keyword occurs on the line, but not at its start.
KeywordOnlyMidLine(l) ==
    /\ \E at \in 1..Len(l) : StartsWithAt(l, at, KEYWORD)
    /\ ~KeywordStartsLine(l)

UPPER == <<"I", "N", "C", "L", "U", "D", "E">>
LOWER == <<"i", "n", "c", "l", "u", "d", "e">>
ToLower(c) ==
    IF \E m \in 1..Len(UPPER) : UPPER[m] = c
    THEN LOWER[CHOOSE m \in 1..Len(UPPER) : UPPER[m] = c]
    ELSE c

\* The line starts, after optional whitespace, with an upper- or mixed-case
\* spelling of the keyword.
CaseVariantStartsLine(l) ==
    LET t == AfterIndent(l)
    IN  /\ Len(t) >= Len(KEYWORD)
        /\ [m \in 1..Len(KEYWORD) |-> ToLower(t[m])] = KEYWORD
        /\ SubSeq(t, 1, Len(KEYWORD)) # KEYWORD

\* A line of the legacy syntax: `@` immediately followed by a path token. The
\* bare keyword is the incomplete directive, not a legacy line.
LegacyAtLine(l) ==
    LET t == AfterIndent(l)
    IN  /\ Len(t) >= 2
        /\ t[1] = "@"
        /\ \A m \in 1..Len(t) : ~IsSpace(t[m])
        /\ t # KEYWORD

NotADirectiveLine(l) ==
    KeywordOnlyMidLine(l) \/ CaseVariantStartsLine(l) \/ LegacyAtLine(l)

-----------------------------------------------------------------------------
(* Claims about the single-line functions, checked under SpecLine *)

\* C3: isIncludeDirective(line) is true only if the line is optional
\* whitespace, the lowercase keyword and at least one whitespace character,
\* followed by anything; for a line where the keyword occurs only mid-line, a
\* line starting with another-case spelling of the keyword and a legacy
\* single-@ line it is false, parseIncludeLine returns null and
\* parseIncludeDirectives returns no directive and no error.
C3_KeywordMustStartLine ==
    /\ isDirResult = Bool(TRUE) => KeywordThenSpace(line)
    /\ NotADirectiveLine(line) =>
           /\ isDirResult \in {Unset, Bool(FALSE)}
           /\ parseResult \in {Unset, Null}
           /\ scanResult \in {Unset, ParseResult(content, <<>>, <<>>)}

C3_Witness ==
    /\ NotADirectiveLine(line)
    /\ \/ isDirResult = Bool(FALSE)
       \/ parseResult = Null
       \/ scanResult = ParseResult(content, <<>>, <<>>)

\* C7: for a line made of optional whitespace, the keyword, at least one
\* whitespace character and a remainder that is not empty after trimming,
\* parseIncludeLine returns a directive whose rawPath is the trimmed remainder,
\* and extractIncludePath returns the same string.
C7_RawPathIsTrimmedRemainder ==
    KeywordThenPath(line) =>
        /\ parseResult # Unset =>
               /\ parseResult.tag = "directive"
               /\ parseResult.rawPath = Trim(AfterKeyword(line))
        /\ extractResult # Unset =>
               extractResult = Str(Trim(AfterKeyword(line)))

\* C10: for a line made of optional whitespace, the keyword and then nothing
\* or only whitespace, isIncludeDirective is false, and parseIncludeLine and
\* extractIncludePath return null.
C10_EmptyPathIsNotADirective ==
    KeywordAlone(line) =>
        /\ isDirResult \in {Unset, Bool(FALSE)}
        /\ parseResult \in {Unset, Null}
        /\ extractResult \in {Unset, Null}

-----------------------------------------------------------------------------
(* parseIncludeDirectives applied to contents of several lines *)

MaxLines == 3

KW == KEYWORD
SP == <<" ">>
CR == <<"\r">>
PATH == <<".", "/", "a">>

\* The lines contents are made of: no directive, incomplete directives,
\* complete directives (indented, padded, with an embedded space, with a blank
\* path, with a carriage return) and lines that only look like directives.
ScanLines ==
    { <<>>, <<"a">>, SP,
      KW, SP \o KW, KW \o SP, KW \o SP \o SP, KW \o CR,
      KW \o SP \o PATH, SP \o KW \o SP \o SP \o PATH \o SP,
      KW \o SP \o <<"a", " ", "b">>, KW \o SP \o PATH \o CR,
      KW \o SP \o CR \o PATH,
      <<"a", " ">> \o KW \o SP \o PATH, MIXED_KEYWORD \o SP \o PATH,
      <<"@">> \o PATH, KW \o PATH }

RECURSIVE LineLists(_)
LineLists(n) ==
    IF n = 0 THEN {<<>>}
    ELSE LET shorter == LineLists(n - 1)
         IN  shorter \cup {Append(ls, l) : ls \in shorter, l \in ScanLines}

\* Every content of one to MaxLines lines, the lines separated by line feeds.
Contents == {Join(ls, "\n") : ls \in LineLists(MaxLines) \ {<<>>}}

InitScan ==
    /\ homeDir = HOME
    /\ basePath = BASE
    /\ content \in Contents
    /\ line = <<>>
    /\ lineNumber = 1
    /\ inputPath = <<>>
    /\ NoCallYet
    /\ ResolverIdle

NextScan == CallParseIncludeDirectives

SpecScan == InitScan /\ [][NextScan]_vars

\* The line matches the directive pattern with a non-empty path: optional
\* whitespace, the keyword, whitespace, and a last stretch free of line
\* terminators that holds a non-whitespace character; whatever precedes that
\* stretch after the keyword is whitespace.
DirectiveLine(l) ==
    /\ KeywordThenSpace(l)
    /\ LET r == AfterKeyword(l)
           lastBreak == Max({0} \cup {m \in 1..Len(r) : r[m] \in LineTerminator})
       IN  /\ \A m \in 1..lastBreak : IsSpace(r[m])
           /\ Trim(SubSeq(r, lastBreak + 1, Len(r))) # <<>>

Contains(seq, sub) ==
    \E a \in 0..(Len(seq) - Len(sub)) : SubSeq(seq, a + 1, a + Len(sub)) = sub

\* C1: directives has exactly one entry for each line of the content that
\* matches the directive pattern with a non-empty path, in line order, the
\* k-th entry carrying the 1-indexed number and the text of the k-th such line.
C1_OneDirectivePerDirectiveLine ==
    scanResult # Unset =>
        LET lines == Split(content, "\n")
            matching == {n \in 1..Len(lines) : DirectiveLine(lines[n])}
            ds == scanResult.directives
        IN  /\ Len(ds) = Cardinality(matching)
            /\ \A k \in 1..Len(ds) :
                   /\ ds[k].lineNumber \in matching
                   /\ ds[k].originalLine = lines[ds[k].lineNumber]
                   /\ k > 1 => ds[k - 1].lineNumber < ds[k].lineNumber

C1_Witness ==
    /\ scanResult # Unset
    /\ Len(scanResult.directives) = 2
    /\ scanResult.directives[1].lineNumber = 1
    /\ scanResult.directives[2].lineNumber = 3

\* C2: every line that is the keyword alone (optionally indented, optionally
\* followed by whitespace) gives exactly one error, with that line's number and
\* a message containing "path cannot be empty", and no directive, wherever the
\* line stands in the content.
C2_KeywordAloneIsOneError ==
    scanResult # Unset =>
        LET lines == Split(content, "\n")
        IN  \A n \in 1..Len(lines) :
                KeywordAlone(lines[n]) =>
                    /\ Cardinality({k \in 1..Len(scanResult.errors) :
                           scanResult.errors[k].lineNumber = n}) = 1
                    /\ \A k \in 1..Len(scanResult.errors) :
                           scanResult.errors[k].lineNumber = n =>
                               /\ scanResult.errors[k].line = lines[n]
                               /\ Contains(scanResult.errors[k].message,
                                           <<"path", "cannot", "be", "empty">>)
                    /\ \A k \in 1..Len(scanResult.directives) :
                           scanResult.directives[k].lineNumber # n

\* The spec's example: two keyword-alone lines, then a directive.
C2_Witness ==
    /\ content = Join(<<KW, KW \o SP \o SP, KW \o SP \o PATH>>, "\n")
    /\ scanResult # Unset
    /\ Len(scanResult.errors) = 2
    /\ Len(scanResult.directives) = 1
    /\ scanResult.directives[1].lineNumber = 3

\* The line numbers of the entries of a list of directives or errors.
LineNumbersOf(entries) == {entries[k].lineNumber : k \in 1..Len(entries)}

\* The keyword followed by two or more whitespace characters and nothing
\* else: both patterns match the line.
BothPatternsMatch(l) ==
    INCLUDE_DIRECTIVE_REGEX(l).matched /\ INCOMPLETE_INCLUDE_REGEX(l)

\* C11: in a result of parseIncludeDirectives every line number of the
\* content appears at most once in directives and errors taken together: no
\* number is in both lists, none is repeated within a list, and every number
\* is that of a line of the content; this includes the lines that both the
\* complete and the incomplete pattern match.
C11_AtMostOneEntryPerLine ==
    scanResult # Unset =>
        LET lines == Split(content, "\n")
            ds == scanResult.directives
            es == scanResult.errors
        IN  /\ LineNumbersOf(ds) \cap LineNumbersOf(es) = {}
            /\ Cardinality(LineNumbersOf(ds)) = Len(ds)
            /\ Cardinality(LineNumbersOf(es)) = Len(es)
            /\ LineNumbersOf(ds) \cup LineNumbersOf(es) \subseteq 1..Len(lines)
            /\ \A n \in 1..Len(lines) :
                   BothPatternsMatch(lines[n]) =>
                       /\ n \notin LineNumbersOf(ds)
                       /\ Cardinality({k \in 1..Len(es) : es[k].lineNumber = n}) = 1

\* A directive, then the keyword followed by two spaces, then the keyword
\* followed by a carriage return and by nothing: one directive, one error for
\* the line both patterns match, one for the line the incomplete pattern
\* matches.
C11_Witness ==
    /\ content = Join(<<KW \o SP \o PATH, KW \o SP \o SP, KW \o CR>>, "\n")
    /\ BothPatternsMatch(KW \o SP \o SP)
    /\ scanResult # Unset
    /\ LineNumbersOf(scanResult.directives) = {1}
    /\ Len(scanResult.errors) = 2
    /\ scanResult.errors[1].lineNumber = 2
    /\ scanResult.errors[2].lineNumber = 3

-----------------------------------------------------------------------------
(* normalizePath, and the resolvedPath of a directive *)

MaxSegments == 4

\* The segments paths are made of: an empty one (a leading, doubled or
\* trailing separator), `.`, `..`, a name and the home indicator.
Segments == {<<>>, DOT, DOTDOT, <<"a">>, TILDE}

RECURSIVE SegmentLists(_)
SegmentLists(n) ==
    IF n = 0 THEN {<<>>}
    ELSE LET shorter == SegmentLists(n - 1)
         IN  shorter \cup {Append(ss, seg) : ss \in shorter, seg \in Segments}

\* The paths of the tests and of the documentation.
DocumentedPaths ==
    { <<"/", "a", "/", "/", "b", "/", ".", ".", "/", "c">>,
      <<".", ".", "/", ".", ".", "/", "o", "/", "r">>,
      <<"~", "/", ".", "c", "/", "r">>,
      <<"/", "e", "/", "/", "c", "/", "/", "/", "r">> }

\* Every path of at most MaxSegments segments, bare or padded with spaces.
InputPaths ==
    LET bare == {Join(ss, SEP) : ss \in SegmentLists(MaxSegments)}
                    \cup DocumentedPaths
    IN  bare \cup {SP \o q \o SP : q \in bare}

\* Absolute base paths: a normalized one and one with redundant parts.
BasePaths == {<<"/", "d", "/", "e">>, <<"/", "d", "/", ".", ".", "/", "/", "b", "/">>}

\* Home directories: an ordinary one and the root.
HomeDirs == {HOME, <<SEP>>}

\* The directive line is the keyword, a space and the path.
InitPath ==
    /\ homeDir \in HomeDirs
    /\ basePath \in BasePaths
    /\ inputPath \in InputPaths
    /\ line = KEYWORD \o SP \o inputPath
    /\ lineNumber = 1
    /\ content = line
    /\ NoCallYet
    /\ ResolverIdle

NextPath ==
    \/ CallNormalizePath
    \/ CallParseIncludeLine
    \/ CallParseIncludeDirectives

SpecPath == InitPath /\ [][NextPath]_vars

\* The path starts at the root and has no `.` segment, no `..` segment and no
\* doubled separator (a single trailing separator, which path.normalize and
\* path.join keep, is none of these).
IsAbsoluteNormalized(q) ==
    /\ Len(q) >= 1
    /\ q[1] = SEP
    /\ \A m \in 1..(Len(q) - 1) : ~(q[m] = SEP /\ q[m + 1] = SEP)
    /\ \A m \in 2..Len(q) :
           ~ /\ q[m - 1] = SEP
             /\ q[m] = "."
             /\ (m = Len(q) \/ q[m + 1] = SEP)
    /\ \A m \in 2..(Len(q) - 1) :
           ~ /\ q[m - 1] = SEP
             /\ q[m] = "."
             /\ q[m + 1] = "."
             /\ (m + 1 = Len(q) \/ q[m + 2] = SEP)

\* C8: the resolvedPath of every directive parseIncludeLine and
\* parseIncludeDirectives return is absolute and normalized, whatever the raw
\* path: home-relative, absolute with redundant parts, or relative with `..`
\* segments climbing above basePath or above the root.
C8_ResolvedPathIsAbsoluteNormalized ==
    /\ parseResult \notin {Unset, Null} =>
           IsAbsoluteNormalized(parseResult.resolvedPath)
    /\ scanResult # Unset =>
           \A k \in 1..Len(scanResult.directives) :
               IsAbsoluteNormalized(scanResult.directives[k].resolvedPath)

\* `../../../a` from /d/e climbs above the root and resolves to /a.
C8_Witness ==
    /\ basePath = <<"/", "d", "/", "e">>
    /\ parseResult \notin {Unset, Null}
    /\ parseResult.rawPath = <<".", ".", "/", ".", ".", "/", ".", ".", "/", "a">>
    /\ parseResult.resolvedPath = <<"/", "a">>

\* C9: on the trimmed input, `~` gives the home directory, a `~/` prefix the
\* home directory joined with the remainder, an absolute path its normal form
\* (`/a//b/../c` gives `/a/c`), and anything else is resolved against
\* basePath; in the first three cases the result is the same for every
\* basePath.
C9_NormalizePathPicksBase ==
    normalizeResult # Unset =>
        LET t == Trim(inputPath)
            r == normalizeResult.value
            isHome == t = TILDE
            isUnderHome == StartsWithAt(t, 1, <<"~", SEP>>)
            isAbsolute == ~isHome /\ ~isUnderHome /\ PathIsAbsolute(t)
        IN  /\ isHome => r = homeDir
            /\ isUnderHome => r = PathJoin(homeDir, SubSeq(t, 3, Len(t)))
            /\ isAbsolute => r = PathNormalize(t)
            /\ ~(isHome \/ isUnderHome \/ isAbsolute) => r = PathResolve(basePath, t)
            /\ isHome \/ isUnderHome \/ isAbsolute =>
                   \A b \in BasePaths : NormalizePath(inputPath, b) = r
            /\ t = <<"/", "a", "/", "/", "b", "/", ".", ".", "/", "c">> =>
                   r = <<"/", "a", "/", "c">>

C9_Witness ==
    /\ inputPath = SP \o <<"/", "a", "/", "/", "b", "/", ".", ".", "/", "c">> \o SP
    /\ normalizeResult = Str(<<"/", "a", "/", "c">>)

-----------------------------------------------------------------------------
(* The inclusion resolver: ProcessOptions, ProcessResult, ProcessError and    *)
(* DEFAULT_MAX_DEPTH are declared in the source; the walk itself follows the  *)
(* specification's algorithm (section 4.2).                                   *)

DEFAULT_MAX_DEPTH == 10

\* options.maxDepth, or the default when it is not given.
EffectiveMaxDepth ==
    IF options.maxDepth = <<>> THEN DEFAULT_MAX_DEPTH ELSE options.maxDepth[1]

ProcessError(filePath, n, type) ==
    [filePath |-> filePath, lineNumber |-> n, type |-> type]

\* The directory containing a resolved path.
Dirname(q) ==
    LET segs == Split(q, SEP)
    IN  IF Len(segs) <= 2 THEN <<SEP>>
        ELSE Join(SubSeq(segs, 1, Len(segs) - 1), SEP)

\* options.readFile(path): the content, or the kind of failure.
ReadFile(q) ==
    IF q \in DOMAIN fs THEN [ok |-> TRUE, content |-> fs[q], kind |-> "ok"]
    ELSE [ok |-> FALSE, content |-> <<>>,
          kind |-> IF q \in broken THEN "read_error" ELSE "file_not_found"]

\* Step 1: the scan errors of a document, as parse_error entries.
ParseErrorsOf(filePath, scan) ==
    [k \in 1..Len(scan.result.errors) |->
        ProcessError(filePath, scan.result.errors[k].lineNumber, "parse_error")]

\* One call of the resolver: the document it resolves (its lines, with the
\* directive lines replaced as they are expanded), its directives and the next
\* one to handle, its depth and its ancestor set.
Frame(filePath, scan, base, depth, ancestors) ==
    [path |-> filePath,
     base |-> base,
     lines |-> scan.lines,
     directives |-> scan.result.directives,
     next |-> 1,
     depth |-> depth,
     ancestors |-> ancestors]

\* Step 2a with `>` for `>=`: one level too many is expanded.
ExceedsMaxDepthOffByOne(depth) == depth > EffectiveMaxDepth

\* Step 2a: currentDepth >= maxDepth.
ExceedsMaxDepth(depth) == depth >= EffectiveMaxDepth

\* Step 2b against every path included so far instead of the ancestor chain.
IsCircularAmongAllIncluded(q, ancestors) ==
    q \in ancestors \/ \E k \in 1..Len(included) : included[k] = q

\* Step 2b: the resolved path is in the ancestor chain.
IsCircular(q, ancestors) == q \in ancestors

\* Step 2d adding the including file's path instead of the included one's.
ChildAncestorsAddsParent(frame, q) == frame.ancestors \cup {frame.path}

\* Step 2d: the ancestor set of the recursive call.
ChildAncestors(frame, q) == frame.ancestors \cup {q}

Top == stack[Len(stack)]
HasDirective == rpc = "running" /\ Top.next <= Len(Top.directives)
Current == Top.directives[Top.next]

Advance == [stack EXCEPT ![Len(stack)].next = @ + 1]

\* The call resolve(content, basePath, options): scan the document.
StartResolve ==
    /\ rpc = "start"
    /\ stack' = <<Frame(<<>>, scans[rootPath], basePath, 0, options.includedPaths)>>
    /\ procErrors' = ParseErrorsOf(<<>>, scans[rootPath])
    /\ rpc' = "running"
    /\ UNCHANGED <<inputs, scanOutputs, included, merged>>

\* Step 2a: the directive is at the depth limit.
RejectMaxDepth ==
    /\ HasDirective
    /\ ExceedsMaxDepth(Top.depth)
    /\ procErrors' = Append(procErrors,
           ProcessError(Current.resolvedPath, Current.lineNumber, "max_depth"))
    /\ stack' = Advance
    /\ UNCHANGED <<inputs, scanOutputs, included, merged, rpc>>

\* Step 2b: the directive closes a cycle.
RejectCircular ==
    /\ HasDirective
    /\ ~ExceedsMaxDepth(Top.depth)
    /\ IsCircular(Current.resolvedPath, Top.ancestors)
    /\ procErrors' = Append(procErrors,
           ProcessError(Current.resolvedPath, Current.lineNumber, "circular_include"))
    /\ stack' = Advance
    /\ UNCHANGED <<inputs, scanOutputs, included, merged, rpc>>

Readable ==
    /\ HasDirective
    /\ ~ExceedsMaxDepth(Top.depth)
    /\ ~IsCircular(Current.resolvedPath, Top.ancestors)

\* Step 2c: the file does not exist.
ReadNotFound ==
    /\ Readable
    /\ ReadFile(Current.resolvedPath).kind = "file_not_found"
    /\ procErrors' = Append(procErrors,
           ProcessError(Current.resolvedPath, Current.lineNumber, "file_not_found"))
    /\ stack' = Advance
    /\ UNCHANGED <<inputs, scanOutputs, included, merged, rpc>>

\* Step 2c: the read fails otherwise.
ReadError ==
    /\ Readable
    /\ ReadFile(Current.resolvedPath).kind = "read_error"
    /\ procErrors' = Append(procErrors,
           ProcessError(Current.resolvedPath, Current.lineNumber, "read_error"))
    /\ stack' = Advance
    /\ UNCHANGED <<inputs, scanOutputs, included, merged, rpc>>

\* Step 2d: the file is read; its content is resolved one level deeper, with
\* its path added to the ancestor set of that call only.
ExpandInclude ==
    /\ Readable
    /\ ReadFile(Current.resolvedPath).ok
    /\ LET q == Current.resolvedPath
       IN  /\ included' = Append(included, q)
           /\ procErrors' = procErrors \o ParseErrorsOf(q, scans[q])
           /\ stack' = Append(stack,
                  Frame(q, scans[q], Dirname(q), Top.depth + 1,
                        ChildAncestors(Top, q)))
    /\ UNCHANGED <<inputs, scanOutputs, merged, rpc>>

\* Step 2d, on return: the resolved content replaces the directive line.
ReturnToParent ==
    /\ rpc = "running"
    /\ Top.next > Len(Top.directives)
    /\ Len(stack) > 1
    /\ LET parent == stack[Len(stack) - 1]
           at == parent.directives[parent.next].lineNumber
       IN  stack' = [SubSeq(stack, 1, Len(stack) - 1) EXCEPT
                        ![Len(stack) - 1].lines[at] = Join(Top.lines, "\n"),
                        ![Len(stack) - 1].next = @ + 1]
    /\ UNCHANGED <<inputs, scanOutputs, included, procErrors, merged, rpc>>

\* Step 3: the top-level call returns.
FinishResolve ==
    /\ rpc = "running"
    /\ Top.next > Len(Top.directives)
    /\ Len(stack) = 1
    /\ merged' = Join(Top.lines, "\n")
    /\ stack' = <<>>
    /\ rpc' = "done"
    /\ UNCHANGED <<inputs, scanOutputs, included, procErrors>>

NextResolve ==
    \/ StartResolve
    \/ RejectMaxDepth
    \/ RejectCircular
    \/ ReadNotFound
    \/ ReadError
    \/ ExpandInclude
    \/ ReturnToParent
    \/ FinishResolve

-----------------------------------------------------------------------------
(* File systems and options the resolver is run on *)

MaxIncludes == 2
MaxChain == 11

DIR == <<"/", "d">>
FilePath(name) == DIR \o <<SEP>> \o name

\* The k-th directive line of a document: relative spelling at odd positions,
\* absolute spelling with a redundant part at even ones.
IncludeLineFor(name, k) ==
    IF k % 2 = 1 THEN KEYWORD \o SP \o <<".", SEP>> \o name
    ELSE KEYWORD \o SP \o DIR \o <<SEP, ".", SEP>> \o name

\* A document: a line of text, then one directive per target.
DocumentOf(targets) ==
    Join(<< <<"t">> >> \o
         [k \in 1..Len(targets) |-> IncludeLineFor(targets[k], k)], "\n")

A == <<"a">>
B == <<"b">>
X == <<"x">>
R == <<"r">>
L == <<"l">>

RECURSIVE TargetLists(_)
TargetLists(n) ==
    IF n = 0 THEN {<<>>}
    ELSE LET shorter == TargetLists(n - 1)
         IN  shorter \cup {Append(ts, t) : ts \in shorter, t \in {A, B, X}}

\* Two files: a, the document resolved, including up to MaxIncludes of a, b
\* and the missing x, and b including at most one of them; or b unreadable.
SmallWorlds ==
    {[fs |-> (FilePath(A) :> DocumentOf(ta)) @@ (FilePath(B) :> DocumentOf(tb)),
      broken |-> {}, root |-> FilePath(A)] :
        ta \in TargetLists(MaxIncludes), tb \in TargetLists(1)}
    \cup
    {[fs |-> (FilePath(A) :> DocumentOf(ta)),
      broken |-> {FilePath(B)}, root |-> FilePath(A)] :
        ta \in TargetLists(MaxIncludes)}

\* A document with incomplete directives, for the parse_error entries.
ParseErrorWorld ==
    [fs |-> (FilePath(A) :> Join(<<KEYWORD, IncludeLineFor(B, 1)>>, "\n"))
            @@ (FilePath(B) :> KEYWORD \o SP \o SP),
     broken |-> {}, root |-> FilePath(A)]

\* The i-th file of a chain; the 0-th is the document resolved.
ChainName(i) == IF i = 0 THEN R ELSE [k \in 1..i |-> "c"]

\* The targets of the i-th document of a chain of n files: the next file of
\* the chain (the last one includes nothing, or the first document again when
\* the chain is closed into a cycle), with the leaf l as a sibling directive
\* before or after it.
ChainTargets(i, n, sibling, closed) ==
    LET onward == IF i < n THEN <<ChainName(i + 1)>>
                  ELSE IF closed THEN <<R>> ELSE <<>>
    IN  IF onward = <<>> \/ sibling = "none" THEN onward
        ELSE IF sibling = "before" THEN <<L>> \o onward
        ELSE onward \o <<L>>

ChainWorld(n, sibling, closed) ==
    [fs |-> [q \in {FilePath(ChainName(i)) : i \in 0..n} \cup {FilePath(L)} |->
                IF q = FilePath(L) THEN <<"t">>
                ELSE DocumentOf(ChainTargets(
                         CHOOSE i \in 0..n : FilePath(ChainName(i)) = q,
                         n, sibling, closed))],
     broken |-> {}, root |-> FilePath(R)]

ChainWorlds ==
    {ChainWorld(n, sibling, closed) :
        n \in 0..MaxChain, sibling \in {"none", "before", "after"},
        closed \in BOOLEAN}

Worlds == SmallWorlds \cup {ParseErrorWorld} \cup ChainWorlds

\* maxDepth left out, 1 or 2; the ancestor set empty or seeded with the
\* document's own path.
OptionChoices(root) ==
    {[maxDepth |-> m, includedPaths |-> seed] :
        m \in {<<>>, <<1>>, <<2>>}, seed \in {{}, {root}}}

InitResolve ==
    /\ homeDir = HOME
    /\ \E w \in Worlds :
           /\ fs = w.fs
           /\ broken = w.broken
           /\ rootPath = w.root
    /\ options \in OptionChoices(rootPath)
    /\ content = fs[rootPath]
    /\ basePath = Dirname(rootPath)
    /\ scans = [q \in DOMAIN fs |->
                    [lines |-> Split(fs[q], "\n"),
                     result |-> ParseIncludeDirectives(fs[q], Dirname(q))]]
    /\ line = <<>>
    /\ lineNumber = 1
    /\ inputPath = <<>>
    /\ NoCallYet
    /\ stack = <<>>
    /\ included = <<>>
    /\ procErrors = <<>>
    /\ merged = <<>>
    /\ rpc = "start"

SpecResolve == InitResolve /\ [][NextResolve]_vars

\* The walk is one sequential task: a step that can be taken is taken.
FairSpecResolve == SpecResolve /\ WF_vars(NextResolve)

-----------------------------------------------------------------------------
(* Claims about the resolver *)

Count(seq, x) == Cardinality({k \in 1..Len(seq) : seq[k] = x})

ErrorsOfType(type) == {k \in 1..Len(procErrors) : procErrors[k].type = type}

\* The resolved paths of the directives of file q, in order.
TargetsOf(q) ==
    LET ds == scans[q].result.directives
    IN  [k \in 1..Len(ds) |-> ds[k].resolvedPath]

\* Where n steps lead from q through files that hold exactly one directive;
\* the empty path when a file on the way is missing or holds another number.
RECURSIVE Follow(_, _)
Follow(q, n) ==
    IF n = 0 THEN q
    ELSE IF q \notin DOMAIN fs THEN <<>>
    ELSE IF Len(TargetsOf(q)) # 1 THEN <<>>
    ELSE Follow(TargetsOf(q)[1], n - 1)

\* The document resolved lies on a cycle of files with one directive each.
CycleLengths ==
    {n \in 1..Cardinality(DOMAIN fs) : Follow(rootPath, n) = rootPath}
IsSimpleCycle == CycleLengths # {}
CycleLength == CHOOSE n \in CycleLengths : \A m \in CycleLengths : n <= m

\* The depth of the call that meets the directive closing the cycle: the
\* document's own path is in the ancestor chain from the start when the caller
\* seeded it, and after the first expansion of the document otherwise.
ClosingDepth ==
    IF rootPath \in options.includedPaths THEN CycleLength - 1 ELSE CycleLength

NoDuplicates(seq) == \A i, j \in 1..Len(seq) : seq[i] = seq[j] => i = j

C4_Outcome ==
    IsSimpleCycle =>
        IF ClosingDepth < EffectiveMaxDepth
        THEN /\ Cardinality(ErrorsOfType("circular_include")) = 1
             /\ Len(procErrors) = 1
             /\ Len(included) = ClosingDepth
             /\ NoDuplicates(included)
        ELSE /\ ErrorsOfType("circular_include") = {}
             /\ Cardinality(ErrorsOfType("max_depth")) = 1
             /\ Len(procErrors) = 1

RECURSIVE ReachWithin(_, _)
ReachWithin(qs, n) ==
    IF n = 0 THEN {}
    ELSE LET direct == UNION {{TargetsOf(q)[k] : k \in 1..Len(TargetsOf(q))} :
                                 q \in qs \cap DOMAIN fs}
         IN  direct \cup ReachWithin(direct, n - 1)
Reach(q) == ReachWithin({q}, Cardinality(DOMAIN fs))

\* No file that the document reaches, nor the document, reaches itself.
Acyclic == \A q \in {rootPath} \cup Reach(rootPath) : q \notin Reach(q)

OnChain(n, sibling) ==
    /\ fs = ChainWorld(n, sibling, FALSE).fs
    /\ rootPath = FilePath(R)

ChainPart(seq) == SelectSeq(seq, LAMBDA q : q # FilePath(L))

\* The first n files of the chain, in order.
ChainPrefix(n) == [i \in 1..n |-> FilePath(ChainName(i))]

\* C6 as stated: on a chain one deeper than maxDepth the only error is the
\* max_depth error of the offending directive, and every sibling directive,
\* the offending directive's own sibling included, is still resolved.
C6_OnlyTheOffendingDirectiveFails ==
    rpc = "done" =>
        \A n \in 1..MaxChain, sibling \in {"none", "before", "after"} :
            (OnChain(n, sibling) /\ n = EffectiveMaxDepth + 1) =>
                /\ Len(procErrors) = 1
                /\ procErrors[1].type = "max_depth"
                /\ sibling # "none" => Count(included, FilePath(L)) = n

\* C6, amended: a chain of at most maxDepth files (10 by default) is resolved
\* fully with no error; on a longer chain the directives of the document at
\* depth maxDepth, the offending one and its sibling in that document, each
\* get a max_depth error and are not expanded, while the files above and their
\* sibling directives are resolved and no other error is added.
C6_MaxDepthStopsTheDeepestDocument ==
    rpc = "done" =>
        \A n \in 0..MaxChain, sibling \in {"none", "before", "after"} :
            OnChain(n, sibling) =>
                LET reached == IF n <= EffectiveMaxDepth THEN n
                               ELSE EffectiveMaxDepth
                IN  /\ ChainPart(included) = ChainPrefix(reached)
                    /\ Count(included, FilePath(L)) =
                           IF sibling = "none" THEN 0
                           ELSE IF n <= EffectiveMaxDepth THEN n ELSE reached
                    /\ \A k \in 1..Len(procErrors) : procErrors[k].type = "max_depth"
                    /\ Len(procErrors) =
                           IF n <= EffectiveMaxDepth THEN 0
                           ELSE IF sibling = "none" THEN 1 ELSE 2

\* The default maxDepth and a chain of 11 files: ten are included, the
\* eleventh is refused.
C6_Witness ==
    /\ rpc = "done"
    /\ options.maxDepth = <<>>
    /\ OnChain(DEFAULT_MAX_DEPTH + 1, "after")
    /\ ChainPart(included) = ChainPrefix(DEFAULT_MAX_DEPTH)
    /\ Len(procErrors) = 2
    /\ procErrors[1].filePath = FilePath(ChainName(DEFAULT_MAX_DEPTH + 1))
    /\ procErrors[2].filePath = FilePath(L)

====
